---- MODULE Spec2Model ----
(***************************************************************************)
(* brunnermunzel_from_count_data: the Brunner-Munzel test computed from    *)
(* count data (mappings value -> occurrence count).                        *)
(*                                                                         *)
(* The package is three pure functions: join_count_data, rank_count_data   *)
(* and brunnermunzel_from_count_data.  Each is an operator here, computed  *)
(* the way the Python computes it, and each has one action that calls it   *)
(* on arguments drawn from bounded sets and records the call and its       *)
(* outcome (a return value or a raised exception).                         *)
(*                                                                         *)
(* Numbers.  Counts and rank cursors are Python ints (Integers here).      *)
(* Python floats (ranks, means, dispersions) are modelled exactly, as      *)
(* fractions in lowest terms [n |-> .., d |-> ..], d > 0: rounding is left *)
(* out.  A numpy float (the statistic) can also be inf or nan; the square  *)
(* root is kept exact by holding a real w as its sign and its square.      *)
(* The distribution library is a black box: a p-value is the term          *)
(* (distribution, statistic, df, tail), or nan.                            *)
(***************************************************************************)
EXTENDS Integers, Sequences, FiniteSets, TLC

VARIABLES call, ret

vars == <<call, ret>>

(* ------------------------------ bounds --------------------------------- *)

\* The largest occurrence count of an argument map.
MaxCount == 2

\* The largest key of a map given to rank_count_data.
MaxRankValue == 3

\* The keys of the maps given to rank_count_data.
RankValues == 0 .. MaxRankValue

\* The numeric keys of the maps given to join_count_data and to
\* brunnermunzel_from_count_data.
Values == {1, 2}

\* np.nan as a dictionary key: a marker, never compared with < or >.
NaN == -1

\* A count: a Python int.  Negative counts are not valid data but can be passed.
Counts == -1 .. MaxCount

\* count_data_t: the mappings from a subset of K to counts.
CountData(K) == UNION {[S -> Counts] : S \in SUBSET K}

EmptyCountData == [v \in {} |-> 0]

\* The arguments of brunnermunzel_from_count_data: a map over the numeric keys,
\* with or without an entry for np.nan that counts no or one occurrence.
NanEntries == {EmptyCountData} \cup {[v \in {NaN} |-> c] : c \in {0, 1}}

Samples == {m @@ e : m \in CountData(Values), e \in NanEntries}

(* --------------------------- Python floats ----------------------------- *)

Abs(a) == IF a < 0 THEN -a ELSE a

RECURSIVE GCD(_, _)
GCD(a, b) == IF b = 0 THEN a ELSE GCD(b, a % b)

\* The float n / d, d # 0.
Frac(n, d) ==
    LET g == GCD(Abs(n), Abs(d))
        s == IF d < 0 THEN -1 ELSE 1
    IN  [n |-> s * (n \div g), d |-> s * (d \div g)]

Float(i) == [n |-> i, d |-> 1]

FAdd(a, b) == Frac(a.n * b.d + b.n * a.d, a.d * b.d)

FSub(a, b) == Frac(a.n * b.d - b.n * a.d, a.d * b.d)

FMul(a, b) == Frac(a.n * b.n, a.d * b.d)

\* a / i for an int i # 0 (i = 0 raises ZeroDivisionError: the callers test it).
FDivInt(a, i) == Frac(a.n, a.d * i)

\* sum([f[v] for v in S]) over floats.
RECURSIVE FSum(_, _)
FSum(f, S) ==
    IF S = {} THEN Float(0)
    ELSE LET v == CHOOSE u \in S : TRUE IN FAdd(f[v], FSum(f, S \ {v}))

\* sum(list(x.values())) over ints.
RECURSIVE SumCounts(_, _)
SumCounts(x, S) ==
    IF S = {} THEN 0
    ELSE LET v == CHOOSE u \in S : TRUE IN x[v] + SumCounts(x, S \ {v})

(* --------------------------- join_count_data --------------------------- *)

\* ret.get(v, 0)
Get(d, v, default) == IF v \in DOMAIN d THEN d[v] ELSE default

\* Accumulate with the earlier count dropped: ret[v] = c
AccumulateOverwrite(r, v, c) ==
    [u \in DOMAIN r \cup {v} |-> IF u = v THEN c ELSE r[u]]

\* ret[v] = ret.get(v, 0) + c
Accumulate(r, v, c) ==
    [u \in DOMAIN r \cup {v} |-> IF u = v THEN Get(r, v, 0) + c ELSE r[u]]

\* for v, c in x.items(): ...   (todo: the items not yet visited)
RECURSIVE JoinItems(_, _, _)
JoinItems(r, x, todo) ==
    IF todo = {} THEN r
    ELSE LET v == CHOOSE u \in todo : TRUE
         IN  JoinItems(Accumulate(r, v, x[v]), x, todo \ {v})

\* for x in args: ...
RECURSIVE JoinArgs(_, _)
JoinArgs(r, args) ==
    IF args = <<>> THEN r
    ELSE JoinArgs(JoinItems(r, Head(args), DOMAIN Head(args)), Tail(args))

join_count_data(args) == JoinArgs(EmptyCountData, args)

(* --------------------------- rank_count_data --------------------------- *)

\* A Python str as the sequence of its characters.
Average == <<"a", "v", "e", "r", "a", "g", "e">>

Methods ==
    { Average, <<>>, <<"a">>, <<"a", "g", "e">>, <<"m", "i", "n">>,
      <<"a", "v", "e", "r", "a", "g", "e", "s">> }

\* s in t, for two strs: s is a substring of t.
StrIn(s, t) ==
    \E i \in 0 .. (Len(t) - Len(s)) : SubSeq(t, i + 1, i + Len(s)) = s

\* method not in ("average"): the parentheses make no tuple, so this is the
\* substring test on the str "average".
MethodNotIn(method) == ~ StrIn(method, Average)

\* sorted(list(x.keys()))
RECURSIVE Sorted(_)
Sorted(S) ==
    IF S = {} THEN <<>>
    ELSE LET m == CHOOSE u \in S : \A w \in S : u <= w
         IN  <<m>> \o Sorted(S \ {m})

\* MinMaxRank without the - 1: (r, r + x[v])
MinMaxRankWide(r, c) == <<r, r + c>>

\* (r, r + x[v] - 1)
MinMaxRank(r, c) == <<r, r + c - 1>>

\* for v in sorted(list(x.keys())): minmaxranks[v] = ...; r += x[v]
RECURSIVE RankLoop(_, _, _, _)
RankLoop(x, keys, r, minmaxranks) ==
    IF keys = <<>> THEN minmaxranks
    ELSE LET v == Head(keys)
         IN  RankLoop(x, Tail(keys), r + x[v],
                      [u \in DOMAIN minmaxranks \cup {v} |->
                          IF u = v THEN MinMaxRank(r, x[v]) ELSE minmaxranks[u]])

\* The body of rank_count_data for method = "average": the rank map.
Ranks(x) ==
    LET minmaxranks == RankLoop(x, Sorted(DOMAIN x), 1, EmptyCountData)
    IN  [v \in DOMAIN minmaxranks |->
            Frac(minmaxranks[v][1] + minmaxranks[v][2], 2)]

Raise(type, msg) == [kind |-> "raise", type |-> type, msg |-> msg]

Return(value) == [kind |-> "return", value |-> value]

rank_count_data(x, method) ==
    IF MethodNotIn(method) THEN Raise("ValueError", "unknown method")
    ELSE Return(Ranks(x))

(* --------------------------- numpy floats ------------------------------ *)

FDiv(a, b) == Frac(a.n * b.d, a.d * b.n)

Sign(a) == IF a.n > 0 THEN 1 ELSE IF a.n < 0 THEN -1 ELSE 0

\* np.nan, +-inf and a real w, held as its sign s and its square sq.
NanFloat == [k |-> "nan", s |-> 0, sq |-> Float(0)]

InfFloat(s) == [k |-> "inf", s |-> s, sq |-> Float(0)]

RealFloat(s, sq) == [k |-> "real", s |-> s, sq |-> sq]

\* numer / (m * np.sqrt(v)), a numpy division: a zero divisor gives nan or
\* +-inf (and a warning), never an exception.  m > 0, v >= 0.
DivBySqrt(numer, m, v) ==
    IF v.n = 0
    THEN IF numer.n = 0 THEN NanFloat ELSE InfFloat(Sign(numer))
    ELSE RealFloat(Sign(numer), FDiv(FMul(numer, numer), FMul(Float(m * m), v)))

\* numer / denom, a numpy division of two floats >= 0.
NpDiv(numer, denom) ==
    IF denom.n = 0
    THEN IF numer.n = 0 THEN NanFloat ELSE InfFloat(Sign(numer))
    ELSE LET q == FDiv(numer, denom) IN RealFloat(Sign(q), FMul(q, q))

\* A p-value: nan, or the value the distribution library gives, as a term.
NanP == [k |-> "nan", dist |-> "", at |-> NanFloat, df |-> NanFloat, tail |-> ""]

\* distributions.t.cdf(w, df) and distributions.norm.cdf(w)
Cdf(dist, w, df) ==
    IF w.k = "nan" \/ (dist = "t" /\ df.k = "nan") THEN NanP
    ELSE [k |-> "cdf", dist |-> dist, at |-> w,
          df |-> IF dist = "t" THEN df ELSE NanFloat, tail |-> "p"]

\* p, 1 - p or 2 * np.min([p, 1 - p])
Alternative(p, expr) == IF p.k = "nan" THEN p ELSE [p EXCEPT !.tail = expr]

(* -------------------- brunnermunzel_from_count_data -------------------- *)

Alternatives == {"two-sided", "less", "greater", "both"}

Distributions == {"t", "normal", "exact"}

NanPolicies == {"propagate", "raise", "omit"}

\* BrunnerMunzelResult(statistic, pvalue)
BrunnerMunzelResult(statistic, pvalue) ==
    Return([statistic |-> statistic, pvalue |-> pvalue])

\* HasNegativeCounts with the check of y left out
HasNegativeCountsInX(x, y) == \E v \in DOMAIN x : x[v] < 0

\* [c for c in x.values() if c < 0] or [c for c in y.values() if c < 0]
HasNegativeCounts(x, y) ==
    (\E v \in DOMAIN x : x[v] < 0) \/ (\E v \in DOMAIN y : y[v] < 0)

\* ContainsNan with cny left out
ContainsNanInX(x, y) == NaN \in DOMAIN x

\* cnx or cny, of _contains_nan on the keys of x and of y
ContainsNan(x, y) == NaN \in DOMAIN x \/ NaN \in DOMAIN y

\* {v: c for v, c in x.items() if not np.isnan(v)}
OmitNan(x) == [v \in DOMAIN x \ {NaN} |-> x[v]]

\* SampleSizeZero with ny left out
SampleSizeZeroX(nx, ny) == nx = 0

\* nx == 0 or ny == 0
SampleSizeZero(nx, ny) == nx = 0 \/ ny = 0

\* sum([rank[v] * c for v, c in x.items()])
WeightedRankSum(rank, x) ==
    FSum([v \in DOMAIN x |-> FMul(rank[v], Float(x[v]))], DOMAIN x)

\* sum([pow(rankc[v] - rankx[v] - rankcx_mean + rankx_mean, 2) * c
\*      for v, c in x.items()])
SquaredDeviationSum(rankc, rankx, rankcx_mean, rankx_mean, x) ==
    FSum([v \in DOMAIN x |->
            LET d == FAdd(FSub(FSub(rankc[v], rankx[v]), rankcx_mean), rankx_mean)
            IN  FMul(FMul(d, d), Float(x[v]))],
         DOMAIN x)

ZeroDivisionError == Raise("ZeroDivisionError", "division by zero")

\* The function up to the statistic: a raise, a short-circuit return, or the
\* statistic with what the p-value step reads.  A Python division by an int 0
\* raises ZeroDivisionError.
Statistic(x0, y0, nan_policy) ==
    IF HasNegativeCounts(x0, y0)
    THEN Raise("ValueError", "The input contains negative counts")
    ELSE IF ContainsNan(x0, y0) /\ nan_policy = "raise"
    THEN Raise("ValueError", "The input contains nan values")
    ELSE IF ContainsNan(x0, y0) /\ nan_policy = "propagate"
    THEN BrunnerMunzelResult(NanFloat, NanP)
    ELSE
    LET omit == ContainsNan(x0, y0) /\ nan_policy = "omit"
        x  == IF omit THEN OmitNan(x0) ELSE x0
        y  == IF omit THEN OmitNan(y0) ELSE y0
        nx == SumCounts(x, DOMAIN x)
        ny == SumCounts(y, DOMAIN y)
    IN
    IF SampleSizeZero(nx, ny) THEN BrunnerMunzelResult(NanFloat, NanP)
    ELSE IF nx = 0 \/ ny = 0 THEN ZeroDivisionError
    ELSE
    LET rankc == Ranks(join_count_data(<<x, y>>))
        rankcx_mean == FDivInt(WeightedRankSum(rankc, x), nx)
        rankcy_mean == FDivInt(WeightedRankSum(rankc, y), ny)
        rankx == Ranks(x)
        ranky == Ranks(y)
        rankx_mean == FDivInt(WeightedRankSum(rankx, x), nx)
        ranky_mean == FDivInt(WeightedRankSum(ranky, y), ny)
    IN
    IF nx - 1 = 0 \/ ny - 1 = 0 THEN ZeroDivisionError
    ELSE
    LET Sx == FDivInt(SquaredDeviationSum(rankc, rankx, rankcx_mean, rankx_mean, x),
                      nx - 1)
        Sy == FDivInt(SquaredDeviationSum(rankc, ranky, rankcy_mean, ranky_mean, y),
                      ny - 1)
        v  == FAdd(FMul(Float(nx), Sx), FMul(Float(ny), Sy))
    IN  [kind |-> "statistic",
         wbfn |-> DivBySqrt(FMul(Float(nx * ny), FSub(rankcy_mean, rankcx_mean)),
                            nx + ny, v),
         nx |-> nx, ny |-> ny, Sx |-> Sx, Sy |-> Sy]

\* df_numer / df_denom
DegreesOfFreedom(nx, ny, Sx, Sy) ==
    LET a == FMul(Float(nx), Sx)
        b == FMul(Float(ny), Sy)
        df_numer == FMul(FAdd(a, b), FAdd(a, b))
        df_denom == FAdd(FDivInt(FMul(a, a), nx - 1), FDivInt(FMul(b, b), ny - 1))
    IN  NpDiv(df_numer, df_denom)

\* UnknownDistribution with the else branch never taken
DistributionDefaultNormal(distribution) == FALSE

\* the else of: if distribution == "t" ... elif distribution == "normal" ...
UnknownDistribution(distribution) == distribution \notin {"t", "normal"}

\* the else of: if alternative == "greater" ... "less" ... "two-sided" ...
UnknownAlternative(alternative) ==
    alternative \notin {"greater", "less", "two-sided"}

\* The p-value step and the return.
PValue(s, alternative, distribution) ==
    IF UnknownDistribution(distribution)
    THEN Raise("ValueError", "distribution should be 't' or 'normal'")
    ELSE
    LET p == IF distribution = "t"
             THEN Cdf("t", s.wbfn, DegreesOfFreedom(s.nx, s.ny, s.Sx, s.Sy))
             ELSE Cdf("normal", s.wbfn, NanFloat)
    IN
    IF UnknownAlternative(alternative)
    THEN Raise("ValueError", "alternative should be 'less', 'greater' or 'two-sided'")
    ELSE BrunnerMunzelResult(s.wbfn,
            Alternative(p, CASE alternative = "greater" -> "p"
                      [] alternative = "less" -> "1 - p"
                      [] alternative = "two-sided" -> "2 * min(p, 1 - p)"))

brunnermunzel_from_count_data(x, y, alternative, distribution, nan_policy) ==
    LET s == Statistic(x, y, nan_policy)
    IN  IF s.kind = "statistic" THEN PValue(s, alternative, distribution) ELSE s

(* ------------------------------ the calls ------------------------------ *)

\* One run of the model is one call: no state outlives a call.
Init ==
    /\ call = [fn |-> "none"]
    /\ ret = [kind |-> "none"]

\* join_count_data(A, B, C)
JoinCountData ==
    /\ call.fn = "none"
    /\ \E A, B, C \in CountData(Values) :
        /\ call' = [fn |-> "join_count_data", args |-> <<A, B, C>>]
        /\ ret' = Return(join_count_data(<<A, B, C>>))

\* rank_count_data(x, method)
RankCountData ==
    /\ call.fn = "none"
    /\ \E x \in CountData(RankValues), method \in Methods :
        /\ call' = [fn |-> "rank_count_data", x |-> x, method |-> method]
        /\ ret' = rank_count_data(x, method)

\* brunnermunzel_from_count_data(x, y, alternative, distribution, nan_policy)
BrunnerMunzel ==
    /\ call.fn = "none"
    /\ \E x, y \in Samples, nan_policy \in NanPolicies :
        LET s == Statistic(x, y, nan_policy)
        IN  \E alternative \in Alternatives, distribution \in Distributions :
              /\ call' = [fn |-> "brunnermunzel_from_count_data", x |-> x, y |-> y,
                          alternative |-> alternative,
                          distribution |-> distribution,
                          nan_policy |-> nan_policy]
              /\ ret' = IF s.kind = "statistic"
                        THEN PValue(s, alternative, distribution) ELSE s

Next == JoinCountData \/ RankCountData \/ BrunnerMunzel

Spec == Init /\ [][Next]_vars

SpecJoin == Init /\ [][JoinCountData]_vars

SpecRank == Init /\ [][RankCountData]_vars

SpecBM == Init /\ [][BrunnerMunzel]_vars

(* ------------- the array-based procedure (the test's oracle) ----------- *)

\* [k for _ in range(v)]
RECURSIVE Repeat(_, _)
Repeat(k, v) == IF v <= 0 THEN <<>> ELSE <<k>> \o Repeat(k, v - 1)

\* count_data_to_array: [k for k, v in c.items() for _ in range(v)]
RECURSIVE Expand(_, _)
Expand(c, todo) ==
    IF todo = {} THEN <<>>
    ELSE LET k == CHOOSE u \in todo : TRUE
         IN  Repeat(k, c[k]) \o Expand(c, todo \ {k})

count_data_to_array(c) == Expand(c, DOMAIN c)

\* scipy.stats.rankdata(a), method "average": the mean of the positions the
\* elements equal to a[i] take in the sorted array.
rankdata(a) ==
    [i \in 1 .. Len(a) |->
        Frac(2 * Cardinality({j \in 1 .. Len(a) : a[j] < a[i]}) + 1
               + Cardinality({j \in 1 .. Len(a) : a[j] = a[i]}), 2)]

\* np.mean(r[lo:hi]) for a non-empty slice
MeanOf(r, lo, hi) == FDivInt(FSum(r, lo .. hi), hi - lo + 1)

\* np.sum(np.power(rankcx - rankx - rankcx_mean + rankx_mean, 2.0)), the slice
\* of rankc starting after `off` elements
ArraySquaredDeviationSum(rankc, off, rankx, rankcx_mean, rankx_mean) ==
    FSum([i \in DOMAIN rankx |->
            LET d == FAdd(FSub(FSub(rankc[off + i], rankx[i]), rankcx_mean),
                          rankx_mean)
            IN  FMul(d, d)],
         DOMAIN rankx)

\* The array-based Brunner-Munzel procedure on two arrays.  Its arithmetic is
\* numpy's throughout: the division by nx - 1 = 0 gives nan, not an exception.
ArrayBrunnerMunzel(x0, y0, alternative, distribution, nan_policy) ==
    LET IsNan(e) == e = NaN
        NotNan(e) == e # NaN
        contains_nan == (\E i \in DOMAIN x0 : IsNan(x0[i]))
                          \/ (\E i \in DOMAIN y0 : IsNan(y0[i]))
    IN
    IF contains_nan /\ nan_policy = "raise"
    THEN Raise("ValueError", "The input contains nan values")
    ELSE IF contains_nan /\ nan_policy = "propagate"
    THEN BrunnerMunzelResult(NanFloat, NanP)
    ELSE
    LET x  == IF contains_nan THEN SelectSeq(x0, NotNan) ELSE x0
        y  == IF contains_nan THEN SelectSeq(y0, NotNan) ELSE y0
        nx == Len(x)
        ny == Len(y)
    IN
    IF nx = 0 \/ ny = 0 THEN BrunnerMunzelResult(NanFloat, NanP)
    ELSE
    LET rankc == rankdata(x \o y)
        rankcx_mean == MeanOf(rankc, 1, nx)
        rankcy_mean == MeanOf(rankc, nx + 1, nx + ny)
        rankx == rankdata(x)
        ranky == rankdata(y)
        rankx_mean == MeanOf(rankx, 1, nx)
        ranky_mean == MeanOf(ranky, 1, ny)
        degenerate == nx = 1 \/ ny = 1
        Sx == FDivInt(ArraySquaredDeviationSum(rankc, 0, rankx, rankcx_mean,
                                               rankx_mean), nx - 1)
        Sy == FDivInt(ArraySquaredDeviationSum(rankc, nx, ranky, rankcy_mean,
                                               ranky_mean), ny - 1)
        wbfn == IF degenerate THEN NanFloat
                ELSE DivBySqrt(FMul(Float(nx * ny), FSub(rankcy_mean, rankcx_mean)),
                               nx + ny,
                               FAdd(FMul(Float(nx), Sx), FMul(Float(ny), Sy)))
        df == IF degenerate THEN NanFloat ELSE DegreesOfFreedom(nx, ny, Sx, Sy)
    IN
    IF distribution \notin {"t", "normal"}
    THEN Raise("ValueError", "distribution should be 't' or 'normal'")
    ELSE IF alternative \notin {"greater", "less", "two-sided"}
    THEN Raise("ValueError", "alternative should be 'less', 'greater' or 'two-sided'")
    ELSE BrunnerMunzelResult(wbfn,
            Alternative(Cdf(distribution, wbfn, df),
                        CASE alternative = "greater" -> "p"
                          [] alternative = "less" -> "1 - p"
                          [] alternative = "two-sided" -> "2 * min(p, 1 - p)"))

(* ------------------------------ the claims ----------------------------- *)

IsBM == call.fn = "brunnermunzel_from_count_data"

IsRank == call.fn = "rank_count_data"

IsJoin == call.fn = "join_count_data"

NonNegative(x) == \A v \in DOMAIN x : x[v] >= 0

\* The entries of x whose key is a number.
Numeric(x) == [v \in {u \in DOMAIN x : u # NaN} |-> x[v]]

\* The number of occurrences x counts: 0 exactly when no entry counts any.
Size(x) == Len(count_data_to_array(x))

RaisedValueError == ret.kind = "raise" /\ ret.type = "ValueError"

NanSentinel == BrunnerMunzelResult(NanFloat, NanP)

ValidOptions ==
    /\ call.alternative \in {"two-sided", "less", "greater"}
    /\ call.distribution \in {"t", "normal"}

\* Two outcomes agree: the same exception type, or the same pair.
SameOutcome(a, b) ==
    /\ a.kind = b.kind
    /\ a.kind = "raise" => a.type = b.type
    /\ a.kind = "return" => a.value = b.value

\* C1: for non-negative counts and every valid option combination, the outcome
\* is that of the array-based procedure on the expanded maps: the same
\* (statistic, p-value), or a failure exactly when that procedure fails.
C1_MatchesArrayProcedure ==
    (IsBM /\ NonNegative(call.x) /\ NonNegative(call.y) /\ ValidOptions)
      => SameOutcome(ret,
            ArrayBrunnerMunzel(count_data_to_array(call.x),
                               count_data_to_array(call.y),
                               call.alternative, call.distribution,
                               call.nan_policy))

\* C2: a negative count in x or in y makes the call fail with ValueError, the
\* negative-count error, whatever the options, the keys and the sample sizes.
C2_NegativeCountsRejected ==
    (IsBM /\ (~ NonNegative(call.x) \/ ~ NonNegative(call.y)))
      => (RaisedValueError /\ ret.msg = "The input contains negative counts")

\* C2's case: the only negative count is in y, x has a nan key and no
\* occurrence, the policy is propagate, and the call raised.
C2_Witness ==
    /\ IsBM /\ RaisedValueError
    /\ NonNegative(call.x) /\ ~ NonNegative(call.y)
    /\ NaN \in DOMAIN call.x /\ Size(call.x) = 0
    /\ call.nan_policy = "propagate"

C4_ZeroSizeShortCircuit ==
    (IsBM /\ NonNegative(call.x) /\ NonNegative(call.y)
          /\ ((NaN \notin DOMAIN call.x /\ NaN \notin DOMAIN call.y)
                \/ call.nan_policy = "omit")
          /\ ((\A v \in DOMAIN call.x : v = NaN \/ call.x[v] = 0)
                \/ (\A v \in DOMAIN call.y : v = NaN \/ call.y[v] = 0)))
      => ret = NanSentinel

\* C4's case: y has entries, all of them zero counts or nan, x has occurrences,
\* the policy is omit and (nan, nan) was returned.
C4_Witness ==
    /\ IsBM /\ call.nan_policy = "omit"
    /\ Size(Numeric(call.x)) >= 2
    /\ NaN \in DOMAIN call.y /\ call.y[NaN] = 1
    /\ DOMAIN call.y # {NaN} /\ Size(Numeric(call.y)) = 0
    /\ ret = NanSentinel

\* C5: rank_count_data fails with ValueError for every method other than
\* exactly "average"; only "average" returns a rank map.
C5_OnlyAverageAccepted ==
    IsRank => (call.method # Average <=> RaisedValueError)

WithZeroCount(x, v) == [u \in DOMAIN x \cup {v} |-> IF u = v THEN 0 ELSE x[u]]

\* C7: adding an entry v -> 0, for any key v (a number or nan) that x or y does
\* not have yet, leaves the outcome unchanged.
C7_ZeroCountInert ==
    IsBM =>
      /\ \A v \in (Values \cup {NaN}) \ DOMAIN call.x :
            brunnermunzel_from_count_data(WithZeroCount(call.x, v), call.y,
                call.alternative, call.distribution, call.nan_policy) = ret
      /\ \A v \in (Values \cup {NaN}) \ DOMAIN call.y :
            brunnermunzel_from_count_data(call.x, WithZeroCount(call.y, v),
                call.alternative, call.distribution, call.nan_policy) = ret

\* The map over the union of the keys whose count is the sum of the counts.
SumOfMaps(maps) ==
    [v \in UNION {DOMAIN maps[i] : i \in DOMAIN maps} |->
        SumCounts([i \in DOMAIN maps |-> Get(maps[i], v, 0)], DOMAIN maps)]

\* C8: join_count_data returns the map over the union of the input keys whose
\* count is the sum of the key's counts over the inputs (none for no input);
\* join is commutative and associative and has the empty map as identity.
C8_JoinSums ==
    IsJoin =>
      LET A == call.args[1]
          B == call.args[2]
          C == call.args[3]
          join(X, Y) == join_count_data(<<X, Y>>)
      IN  /\ ret = Return(SumOfMaps(call.args))
          /\ join_count_data(<<>>) = EmptyCountData
          /\ join(A, B) = SumOfMaps(<<A, B>>)
          /\ join(A, B) = join(B, A)
          /\ join(join(A, B), C) = join(A, join(B, C))
          /\ join(A, EmptyCountData) = A

\* C8's case: a key in all three inputs, another in one only, a negative count
\* passed through.
C8_Witness ==
    /\ IsJoin
    /\ call.args = <<(1 :> 2 @@ 2 :> 1), (1 :> -1), (1 :> 2)>>
    /\ ret = Return((1 :> 3 @@ 2 :> 1))

\* The counts of the keys of x below v, summed.
NBelow(x, v) == Size([u \in {w \in DOMAIN x : w < v} |-> x[u]])

\* The ascending sorted multiset x stands for.
SortedExpansion(x) ==
    LET n == Size(x)
    IN  [i \in 1 .. n |->
            CHOOSE v \in DOMAIN x : NBelow(x, v) < i /\ i <= NBelow(x, v) + x[v]]

\* C9: for non-negative counts and method "average", a key v with count c > 0
\* gets the average of the positions (from 1) its c copies take in the
\* ascending sorted expansion, (n_below + 1 + n_below + c) / 2.
C9_AverageRank ==
    (IsRank /\ call.method = Average /\ NonNegative(call.x))
      => /\ ret.kind = "return"
         /\ DOMAIN ret.value = DOMAIN call.x
         /\ \A v \in DOMAIN call.x :
              call.x[v] > 0 =>
                LET a == SortedExpansion(call.x)
                    at == {i \in DOMAIN a : a[i] = v}
                IN  /\ Cardinality(at) = call.x[v]
                    /\ ret.value[v]
                         = FDivInt(FSum([i \in at |-> Float(i)], at), call.x[v])
                    /\ ret.value[v]
                         = Frac(NBelow(call.x, v) + 1 + NBelow(call.x, v)
                                  + call.x[v], 2)

\* C9's case: the documented example, {0: 1, 2: 2, 3: 1} -> {0: 1.0, 2: 2.5, 3: 4.0}.
C9_Witness ==
    /\ IsRank /\ call.method = Average
    /\ call.x = (0 :> 1 @@ 2 :> 2 @@ 3 :> 1)
    /\ ret = Return((0 :> Float(1) @@ 2 :> Frac(5, 2) @@ 3 :> Float(4)))

\* C10: for non-negative counts, a key with count 0 gets the cursor as its
\* rank, 1 + the counts of the smaller keys, and every rank is >= 1.
C10_ZeroCountRankIsCursor ==
    (IsRank /\ call.method = Average /\ NonNegative(call.x))
      => \A v \in DOMAIN call.x :
            /\ call.x[v] = 0 => ret.value[v] = Float(1 + NBelow(call.x, v))
            /\ ret.value[v].n >= ret.value[v].d

====
